---- MODULE Spec2Model ----
(***************************************************************************)
(* Verification model of the compressed source codec                       *)
(* (src/src/compressed-source.cc): token stream, positional index,         *)
(* cursors, and the public operations of CompressedSource.                 *)
(*                                                                         *)
(* Code units, code points and bytes are integers.  C arrays are 0-based;  *)
(* a TLA+ sequence d holds C element i at d[i + 1].                        *)
(***************************************************************************)
EXTENDS Integers, Sequences, FiniteSets, TLC

(***************************************************************************)
(* Bounds of the explored inputs.                                          *)
(***************************************************************************)
\* longest free part ("body") of an input string
MaxBody == 3
\* largest number of bytes the byte sink accepts before it rejects one
MaxRoom == 4
\* longest comparison string handed to SubStringEquals that is not a
\* substring of the source
MaxOther == 2

(***************************************************************************)
(* Program constants.                                                      *)
(***************************************************************************)
kCharsPerIndexEntry == 1024
kAsciiCode == 0
kUnicodeCode == 1
kFirstBytecode == 2
kLastBytecode == 255
kMaxTokenLength == 9
kBufferSize == 32
\* sizeof(int) of the build: the width W of one index entry
kIntSize == 4
\* unibrow::Utf16::kMaxNonSurrogateCharCode
kMaxNonSurrogateCharCode == 65535
\* unibrow::Utf16::kMaxCharCode
kMaxCharCode == 1114111
\* String::kMaxHashCalcLength: longer strings get a trivial hash
kMaxHashCalcLength == 16383

Min(a, b) == IF a < b THEN a ELSE b

\* the code units start .. start + length - 1 of string s
Sub(s, start, length) == SubSeq(s, start + 1, start + length)

\* the value of C element i of array d; reading outside the array has no
\* defined value: it is reported as -1, a value no byte has, so that a
\* result built from it differs from every expected result
At(d, i) == IF i >= 0 /\ i < Len(d) THEN d[i + 1] ELSE -1

(***************************************************************************)
(* UTF-16 and UTF-8 helpers of the host (unibrow).                         *)
(***************************************************************************)
IsLeadSurrogate(c) == c >= 55296 /\ c <= 56319
IsTrailSurrogate(c) == c >= 56320 /\ c <= 57343
CombineSurrogatePair(lead, trail) ==
    65536 + ((lead % 1024) * 1024) + (trail % 1024)
LeadSurrogate(cp) == 55232 + (cp \div 1024)
TrailSurrogate(cp) == 56320 + (cp % 1024)

\* unibrow::Utf8::Encode(buffer, c, -1): the bytes of one scalar; an
\* unpaired surrogate is encoded as a three byte sequence
Utf8Encode(c) ==
    IF c <= 127 THEN << c >>
    ELSE IF c <= 2047 THEN << 192 + (c \div 64), 128 + (c % 64) >>
    ELSE IF c <= 65535
         THEN << 224 + (c \div 4096), 128 + ((c \div 64) % 64),
                 128 + (c % 64) >>
         ELSE << 240 + (c \div 262144), 128 + ((c \div 4096) % 64),
                 128 + ((c \div 64) % 64), 128 + (c % 64) >>

(***************************************************************************)
(* Code units used in the explored strings.                                *)
(***************************************************************************)
\* '\n', the unit GetLineNumberSlow counts
LF == 10
\* an ASCII letter and a Latin-1 letter: "a" and "e" with an acute accent
Letters == << 97, 233 >>
ChA == Letters[1]
ChEAcute == Letters[2]
\* the largest code unit that is no part of a surrogate pair
ChLast == kMaxNonSurrogateCharCode
\* the two halves of the surrogate pair of the largest code point
ChLead == LeadSurrogate(kMaxCharCode)
ChTrail == TrailSurrogate(kMaxCharCode)

Alphabet == {LF, ChA, ChEAcute, ChLast, ChLead, ChTrail}

(***************************************************************************)
(* Token tables (code-table.inc.c, decoder.inc.c).  The shipped table is   *)
(* generated data; the model carries four of its 254 dictionary codes,     *)
(* with one, two, three and nine code units, and the encoder emits no      *)
(* other bytecode.                                                         *)
(***************************************************************************)
DictCodes == {2, 3, 4, kLastBytecode}

TokenChars(code) ==
    IF code = 2 THEN << ChA >>
    ELSE IF code = 3 THEN << ChA, LF >>
    ELSE IF code = 4 THEN << ChA, ChA, LF >>
    ELSE IF code = kLastBytecode
         THEN << ChA, ChA, ChA, ChA, ChA, ChA, ChA, ChA, ChA >>
         ELSE << >>

token_lengths(code) ==
    IF code = kAsciiCode \/ code = kUnicodeCode THEN 1
    ELSE Len(TokenChars(code))

is_ascii(code) == code = kAsciiCode
is_unicode(code) == code = kUnicodeCode
is_bytecode(code) == code >= kFirstBytecode

decode_unicode(b0, b1, b2) == (b0 * 65536) + (b1 * 256) + b2

\* decode_bytecode(code, dest, dest_len): the code units stored, at most
\* dest_len of them; the return value of the C function is their number
decode_bytecode(code, dest_len) ==
    SubSeq(TokenChars(code), 1, Min(token_lengths(code), dest_len))

\* write_as_utf16 that stores the code units it counts whatever dest_len is
write_as_utf16_unchecked(codepoint, dest_len, wide) ==
    IF ~wide THEN [n |-> 0, chars |-> << >>]
    ELSE IF codepoint <= kMaxNonSurrogateCharCode
         THEN [n |-> 1, chars |-> << codepoint >>]
         ELSE [n |-> 2, chars |-> << LeadSurrogate(codepoint),
                                     TrailSurrogate(codepoint) >>]

\* write_as_utf16(codepoint, dest, dest_len): n is the return value, chars
\* the code units stored.  The char* overload (narrow destination) is
\* UNREACHABLE and returns 0 without storing.
write_as_utf16(codepoint, dest_len, wide) ==
    IF ~wide THEN [n |-> 0, chars |-> << >>]
    ELSE IF codepoint <= kMaxNonSurrogateCharCode
         THEN [n |-> 1,
               chars |-> IF dest_len >= 1 THEN << codepoint >> ELSE << >>]
         ELSE [n |-> 2,
               chars |-> IF dest_len >= 2
                         THEN << LeadSurrogate(codepoint),
                                 TrailSurrogate(codepoint) >>
                         ELSE IF dest_len >= 1
                              THEN << LeadSurrogate(codepoint) >>
                              ELSE << >>]

uc16_length(b0, b1, b2) ==
    IF decode_unicode(b0, b1, b2) < kMaxNonSurrogateCharCode THEN 1 ELSE 2

(***************************************************************************)
(* The index: one unsigned of kIntSize bytes per kCharsPerIndexEntry       *)
(* characters, copied with memcpy in the byte order of the build (the      *)
(* same for writing and reading; least significant byte first here).       *)
(***************************************************************************)
IndexSize(length) == (length \div kCharsPerIndexEntry) * kIntSize

UnsignedBytes(v) ==
    << v % 256, (v \div 256) % 256, (v \div 65536) % 256,
       (v \div 16777216) % 256 >>

\* WriteIndex(index, pos, byte_offset): the index vector afterwards
WriteIndex(index, pos, byte_offset) ==
    LET entry == (pos \div kCharsPerIndexEntry) - 1
        b == UnsignedBytes(byte_offset)
    IN [i \in 1..Len(index) |->
          IF i > entry * kIntSize /\ i <= (entry + 1) * kIntSize
          THEN b[i - (entry * kIntSize)]
          ELSE index[i]]

ReadIndex(data, pos, length) ==
    IF pos < kCharsPerIndexEntry THEN 0
    ELSE LET index_base == Len(data) - IndexSize(length)
             entry == (pos \div kCharsPerIndexEntry) - 1
             o == index_base + (entry * kIntSize)
         IN At(data, o) + (At(data, o + 1) * 256)
            + (At(data, o + 2) * 65536) + (At(data, o + 3) * 16777216)

(***************************************************************************)
(* Cursors.                                                                *)
(***************************************************************************)
Cursor(byte_offset, sub_token_offset) ==
    [byte_offset |-> byte_offset, sub_token_offset |-> sub_token_offset]

\* one round of the while loop of AdvanceCursor: the token at byte_offset
\* is counted and stepped over
AdvanceToken(data, w) ==
    LET code == At(data, w.byte_offset)
        units == IF is_unicode(code)
                 THEN token_lengths(code)
                      + uc16_length(At(data, w.byte_offset + 1),
                                    At(data, w.byte_offset + 2),
                                    At(data, w.byte_offset + 3)) - 1
                 ELSE token_lengths(code)
        size == IF is_bytecode(code) THEN 1
                ELSE IF is_ascii(code) THEN 2 ELSE 4
    IN [byte_offset |-> w.byte_offset + size,
        chars_written |-> w.chars_written + units,
        prev_byte_offset |-> w.byte_offset,
        prev_chars_written |-> w.chars_written]

\* the while loop of AdvanceCursor, at most rounds rounds of it, run as two
\* halves so that evaluation stays shallow; a token code that would be
\* read outside the array ends the walk where it stands
RECURSIVE AdvanceRounds(_, _, _, _)
AdvanceRounds(data, chars, w, rounds) ==
    IF w.chars_written >= chars \/ w.byte_offset >= Len(data) \/ rounds = 0
    THEN w
    ELSE IF rounds = 1 THEN AdvanceToken(data, w)
    ELSE AdvanceRounds(data, chars,
                       AdvanceRounds(data, chars, w, rounds \div 2),
                       rounds - (rounds \div 2))

\* the walk of AdvanceCursor(data, cursor, chars) when its loop ends;
\* byte_offset is then one past the last byte read
AdvanceWalk(data, cursor, chars) ==
    AdvanceRounds(data, chars + cursor.sub_token_offset,
                  [byte_offset |-> cursor.byte_offset, chars_written |-> 0,
                   prev_byte_offset |-> 0, prev_chars_written |-> 0],
                  chars + cursor.sub_token_offset)

\* AdvanceCursor that forgets the sub-token offset of the cursor it is
\* given
AdvanceCursorFromTokenStart(data, cursor, chars) ==
    LET Landed(w) ==
            IF w.chars_written = chars
            THEN Cursor(w.byte_offset, 0)
            ELSE Cursor(w.prev_byte_offset, chars - w.prev_chars_written)
    IN Landed(AdvanceWalk(data, [cursor EXCEPT !.sub_token_offset = 0],
                          chars))

\* AdvanceCursor that stays on the last token walked over when the count
\* ends with that token
AdvanceCursorStaysOnToken(data, cursor, chars) ==
    LET total == chars + cursor.sub_token_offset
        Landed(w) ==
            IF total = 0 THEN cursor
            ELSE Cursor(w.prev_byte_offset, total - w.prev_chars_written)
    IN Landed(AdvanceWalk(data, cursor, chars))

\* AdvanceCursor(data, cursor, chars): the cursor afterwards
AdvanceCursor(data, cursor, chars) ==
    LET total == chars + cursor.sub_token_offset
        Landed(w) ==
            IF w.chars_written = total
            THEN Cursor(w.byte_offset, 0)
            ELSE Cursor(w.prev_byte_offset, total - w.prev_chars_written)
    IN Landed(AdvanceWalk(data, cursor, chars))

GetCursor(data, pos, length) ==
    AdvanceCursor(data, Cursor(ReadIndex(data, pos, length), 0),
                  pos % kCharsPerIndexEntry)

RECURSIVE IsAsciiLoop(_, _, _)
IsAsciiLoop(data, data_ptr, chars) ==
    IF chars > 0 /\ data_ptr < Len(data)
    THEN LET code == At(data, data_ptr)
         IN IF is_bytecode(code)
            THEN IsAsciiLoop(data, data_ptr + 1, chars - token_lengths(code))
            ELSE IF is_ascii(code)
                 THEN IsAsciiLoop(data, data_ptr + 2,
                                  chars - token_lengths(code))
                 ELSE FALSE
    ELSE TRUE

\* IsAscii that leaves the sub-token offset of the cursor out of the count
IsAsciiFromTokenStart(data, cursor, chars) ==
    IsAsciiLoop(data, cursor.byte_offset, chars)

IsAscii(data, cursor, chars) ==
    IsAsciiLoop(data, cursor.byte_offset, chars + cursor.sub_token_offset)

(***************************************************************************)
(* Decode.  The result is the destination buffer afterwards (chars),       *)
(* whether every ASSERT and UNREACHABLE on the way was respected (ok), and *)
(* data_ptr at the end, one past the last byte read.  The model follows    *)
(* the release build, where ASSERT and UNREACHABLE compile to nothing.     *)
(***************************************************************************)
\* the token at data_ptr expanded into the scratch buffer first_token
FirstToken(data, data_ptr, wide) ==
    LET code == At(data, data_ptr)
    IN IF is_bytecode(code)
       THEN [chars |-> decode_bytecode(code, kMaxTokenLength),
             decoded_chars |-> Len(decode_bytecode(code, kMaxTokenLength)),
             next |-> data_ptr + 1, ok |-> TRUE]
       ELSE IF is_ascii(code)
            THEN [chars |-> << At(data, data_ptr + 1) >>,
                  decoded_chars |-> 1,
                  next |-> data_ptr + 2, ok |-> FALSE]
            ELSE LET uc == decode_unicode(At(data, data_ptr + 1),
                                          At(data, data_ptr + 2),
                                          At(data, data_ptr + 3))
                     w == write_as_utf16(uc, kMaxTokenLength, wide)
                 IN [chars |-> w.chars, decoded_chars |-> w.n,
                     next |-> data_ptr + 4,
                     ok |-> wide /\ is_unicode(code)
                            /\ data_ptr + 3 < Len(data)]

\* the whole-token loop; dest_ptr may step past dest_end by one when only
\* the lead surrogate of a pair fits
RECURSIVE DecodeLoop(_, _, _, _, _, _, _)
DecodeLoop(data, data_ptr, dest, dest_ptr, dest_len, wide, ok) ==
    IF dest_ptr < dest_len
    THEN IF data_ptr >= Len(data)
         THEN [chars |-> dest \o [i \in 1..(dest_len - dest_ptr) |-> -1],
               ok |-> FALSE, data_ptr |-> data_ptr + 1]
         ELSE LET code == At(data, data_ptr)
                  room == dest_len - dest_ptr
              IN IF is_bytecode(code)
                 THEN LET t == decode_bytecode(code, room)
                      IN DecodeLoop(data, data_ptr + 1, dest \o t,
                                    dest_ptr + Len(t), dest_len, wide, ok)
                 ELSE IF is_ascii(code)
                      THEN DecodeLoop(data, data_ptr + 2,
                                      Append(dest, At(data, data_ptr + 1)),
                                      dest_ptr + 1, dest_len, wide,
                                      ok /\ data_ptr + 1 < Len(data))
                      ELSE LET uc == decode_unicode(At(data, data_ptr + 1),
                                                    At(data, data_ptr + 2),
                                                    At(data, data_ptr + 3))
                               w == write_as_utf16(uc, room, wide)
                           IN DecodeLoop(data, data_ptr + 4, dest \o w.chars,
                                         dest_ptr + w.n, dest_len, wide,
                                         ok /\ wide /\ is_unicode(code)
                                            /\ data_ptr + 3 < Len(data))
    ELSE [chars |-> dest, ok |-> ok, data_ptr |-> data_ptr]

Decode(data, cursor, dest_len, wide) ==
    IF cursor.sub_token_offset > 0
    THEN LET sub == cursor.sub_token_offset
             \* the copy of decoded_chars code units of the first token f
             \* into dest, and the whole-token loop after it
             Copy(f, decoded_chars) ==
                 DecodeLoop(data, f.next,
                            [i \in 1..decoded_chars |->
                                At(f.chars, i - 1 + sub)],
                            decoded_chars, dest_len, wide,
                            f.ok /\ sub < kMaxTokenLength
                                 /\ cursor.byte_offset < Len(data)
                                 /\ sub < f.decoded_chars)
             \* unsigned decoded_chars -= cursor.sub_token_offset(), then
             \* clamped to the room in dest: a difference below zero wraps
             \* to a value above every destination length
             Partial(f) ==
                 Copy(f, IF f.decoded_chars >= sub
                         THEN Min(f.decoded_chars - sub, dest_len)
                         ELSE dest_len)
         IN Partial(FirstToken(data, cursor.byte_offset, wide))
    ELSE DecodeLoop(data, cursor.byte_offset, << >>, 0, dest_len, wide, TRUE)

(***************************************************************************)
(* Dump: the bytes written to the file, the value of chars at the end,     *)
(* and whether the ASSERTs held.                                           *)
(***************************************************************************)
\* the inner for loop over one decoded token, from index i
RECURSIVE DumpToken(_, _, _, _, _)
DumpToken(token, decoded_chars, i, chars, file) ==
    IF i < decoded_chars /\ chars > 0
    THEN LET uc == At(token, i)
         IN IF IsLeadSurrogate(uc) /\ i + 1 < decoded_chars /\ chars > 1
               /\ IsTrailSurrogate(At(token, i + 1))
            THEN DumpToken(token, decoded_chars, i + 2, chars - 2,
                           file \o Utf8Encode(
                               CombineSurrogatePair(uc, At(token, i + 1))))
            ELSE DumpToken(token, decoded_chars, i + 1, chars - 1,
                           file \o Utf8Encode(uc))
    ELSE [chars |-> chars, file |-> file]

RECURSIVE DumpLoop(_, _, _, _, _, _)
DumpLoop(data, data_ptr, ignore, chars, file, ok) ==
    IF chars > 0 /\ data_ptr < Len(data)
    THEN LET code == At(data, data_ptr)
             uc == decode_unicode(At(data, data_ptr + 1),
                                  At(data, data_ptr + 2),
                                  At(data, data_ptr + 3))
             token == IF is_bytecode(code)
                      THEN decode_bytecode(code, kMaxTokenLength)
                      ELSE IF is_ascii(code)
                           THEN << At(data, data_ptr + 1) >>
                           ELSE write_as_utf16(uc, kMaxTokenLength,
                                               TRUE).chars
             decoded_chars == IF is_bytecode(code) THEN Len(token)
                              ELSE IF is_ascii(code) THEN 1
                              ELSE write_as_utf16(uc, kMaxTokenLength,
                                                  TRUE).n
             next == IF is_bytecode(code) THEN data_ptr + 1
                     ELSE IF is_ascii(code) THEN data_ptr + 2
                     ELSE data_ptr + 4
             skip == Min(ignore, decoded_chars)
             t == DumpToken(token, decoded_chars, skip, chars, file)
         IN DumpLoop(data, next, ignore - skip, t.chars, t.file,
                     ok /\ ignore < decoded_chars)
    ELSE [file |-> file, chars |-> chars, ok |-> ok /\ chars = 0]

Dump(data, cursor, chars) ==
    DumpLoop(data, cursor.byte_offset, cursor.sub_token_offset, chars,
             << >>, cursor.sub_token_offset < kMaxTokenLength)

(***************************************************************************)
(* The encoder (encoder.inc.c, generated): block by block, longest         *)
(* dictionary match first, smallest code among equals, otherwise an ASCII  *)
(* or a Unicode escape; a surrogate pair inside a block becomes one        *)
(* Unicode escape of the combined scalar value.                            *)
(***************************************************************************)
\* fill_input_buffer(input, input_buffer, pos, block_size): the buffer
\* afterwards (buf) and the return value (n)
fill_input_buffer(input, pos, block_size) ==
    LET length == Len(input)
    IN IF pos + block_size <= length
       THEN [buf |-> SubSeq(input, pos + 1, pos + block_size),
             n |-> block_size]
       ELSE [buf |-> SubSeq(input, pos + 1, length)
                     \o [j \in 1..(block_size - (length - pos)) |-> -1],
             n |-> length - pos]

\* add_index_entry that records the start of the output for every block
add_index_entry_at_start(index, output, pos) ==
    IF pos # 0 THEN WriteIndex(index, pos, 0) ELSE index

add_index_entry(index, output, pos) ==
    IF pos # 0 THEN WriteIndex(index, pos, Len(output)) ELSE index

Matches(buf, i, code) ==
    \A k \in 1..token_lengths(code) : At(buf, i + k - 1) = TokenChars(code)[k]

\* the dictionary code the encoder picks at buffer index i, or -1
BestCode(buf, i) ==
    LET cands == {c \in DictCodes : Matches(buf, i, c)}
    IN IF cands = {} THEN -1
       ELSE CHOOSE c \in cands :
              \A d \in cands :
                 \/ token_lengths(d) < token_lengths(c)
                 \/ (token_lengths(d) = token_lengths(c) /\ c <= d)

UnicodeEscape(cp) ==
    << kUnicodeCode, cp \div 65536, (cp \div 256) % 256, cp % 256 >>

\* one round of the encoder on the buffered block: the token for the
\* characters at buffer index e.i is appended to e.output
EncodeToken(buf, e) ==
    LET c == At(buf, e.i)
        code == BestCode(buf, e.i)
    IN IF code # -1
       THEN [i |-> e.i + token_lengths(code),
             output |-> Append(e.output, code)]
       ELSE IF c <= 127
            THEN [i |-> e.i + 1, output |-> e.output \o << kAsciiCode, c >>]
            ELSE IF IsLeadSurrogate(c) /\ IsTrailSurrogate(At(buf, e.i + 1))
                 THEN [i |-> e.i + 2,
                       output |-> e.output \o UnicodeEscape(
                           CombineSurrogatePair(c, At(buf, e.i + 1)))]
                 ELSE [i |-> e.i + 1,
                       output |-> e.output \o UnicodeEscape(c)]

\* the rounds of the encoder while characters of the block remain; at most
\* rounds of them, run as two halves so that evaluation stays shallow
RECURSIVE EncodeRounds(_, _, _, _)
EncodeRounds(buf, n, e, rounds) ==
    IF e.i >= n \/ rounds = 0 THEN e
    ELSE IF rounds = 1 THEN EncodeToken(buf, e)
    ELSE EncodeRounds(buf, n, EncodeRounds(buf, n, e, rounds \div 2),
                      rounds - (rounds \div 2))

EncodeBlock(buf, n, output) ==
    EncodeRounds(buf, n, [i |-> 0, output |-> output], n).output

\* the block loop: an index entry before every block but the first, then
\* the block; a short block is the last one
RECURSIVE EncodeBlocks(_, _, _, _)
EncodeBlocks(input, pos, output, index) ==
    LET idx == add_index_entry(index, output, pos)
        f == fill_input_buffer(input, pos, kCharsPerIndexEntry)
        out == EncodeBlock(f.buf, f.n, output)
    IN IF f.n = kCharsPerIndexEntry
       THEN EncodeBlocks(input, pos + kCharsPerIndexEntry, out, idx)
       ELSE [output |-> out, index |-> idx]

\* Encode(input, output, index); the index vector starts uninitialized
Encode(input) ==
    EncodeBlocks(input, 0, << >>,
                 [i \in 1..IndexSize(Len(input)) |-> -1])

\* StringHasher: the hash field as a function of the length given to the
\* constructor and of the code units added, kept injective so that two
\* hashes agree only if the hasher was fed the same
HasTrivialHash(length) == length > kMaxHashCalcLength
HashField(length, added) ==
    [length |-> length,
     added |-> IF HasTrivialHash(length) THEN << >> ELSE added]

(***************************************************************************)
(* The operations of CompressedSource, as functions of its fields.  bv is  *)
(* the whole byte array (token stream and index), as the code passes it.   *)
(***************************************************************************)
\* static Get(source, cursor): the code unit c, and whether Decode's
\* assertions held
Get(bv, cursor) ==
    LET Result(d) == [c |-> d.chars[1], ok |-> d.ok, data_ptr |-> d.data_ptr]
    IN Result(Decode(bv, cursor, 1, TRUE))

\* CompressedSource::Decompress(start, length): the string returned, and
\* of the Decode behind it the character width chosen, the cursor it
\* started from and data_ptr at its end
Decompress(bv, length_, cached, string, start, length) ==
    IF cached
    THEN [string |-> Sub(string, start, length), ok |-> TRUE,
          wide |-> FALSE, cursor |-> Cursor(0, 0), data_ptr |-> 0]
    ELSE LET Result(d, cursor, wide) ==
                 [string |-> d.chars, ok |-> d.ok, wide |-> wide,
                  cursor |-> cursor, data_ptr |-> d.data_ptr]
             As(cursor, wide) ==
                 Result(Decode(bv, cursor, length, wide), cursor, wide)
             From(cursor) == As(cursor, ~IsAscii(bv, cursor, length))
         IN From(GetCursor(bv, start, length_))

\* the for loop of SubStringEquals from index i on
RECURSIVE EqualsLoop(_, _, _, _, _)
EqualsLoop(bv, cursor, other, i, ok) ==
    IF i < Len(other)
    THEN LET Compare(g) ==
                 IF g.c # At(other, i)
                 THEN [equal |-> FALSE, ok |-> ok /\ g.ok]
                 ELSE EqualsLoop(bv, AdvanceCursor(bv, cursor, 1), other,
                                 i + 1, ok /\ g.ok)
         IN Compare(Get(bv, cursor))
    ELSE [equal |-> TRUE, ok |-> ok]

\* CompressedSource::SubStringEquals(start, other); read tells whether the
\* cursor, the bytes or the cached string were consulted
SubStringEquals(bv, length_, cached, string, start, other) ==
    IF start + Len(other) > length_
    THEN [equal |-> FALSE, ok |-> TRUE, read |-> FALSE]
    ELSE IF cached
         THEN [equal |-> Sub(string, start, Len(other)) = other,
               ok |-> TRUE, read |-> TRUE]
         ELSE LET Result(e) == [equal |-> e.equal, ok |-> e.ok,
                                read |-> TRUE]
              IN Result(EqualsLoop(bv, GetCursor(bv, start, length_),
                                   other, 0, TRUE))

\* the while loop of CompressedSourceHasher::ComputeHash; added is what
\* AddCharacters has been given so far
RECURSIVE ComputeHashLoop(_, _, _, _, _)
ComputeHashLoop(bv, cursor, remaining, added, ok) ==
    IF remaining > 0
    THEN LET count == Min(remaining, kBufferSize)
             Add(d) ==
                 ComputeHashLoop(bv, AdvanceCursor(bv, cursor, count),
                                 remaining - count, added \o d.chars,
                                 ok /\ d.ok)
         IN Add(Decode(bv, cursor, count, TRUE))
    ELSE [added |-> added, ok |-> ok]

ComputeHash(bv, length_, start, length) ==
    IF ~HasTrivialHash(length)
    THEN LET Result(h) == [hash |-> HashField(length, h.added),
                           added |-> h.added, ok |-> h.ok,
                           decoded |-> TRUE]
         IN Result(ComputeHashLoop(bv, GetCursor(bv, start, length_),
                                   length, << >>, TRUE))
    ELSE [hash |-> HashField(length, << >>), added |-> << >>, ok |-> TRUE,
          decoded |-> FALSE]

\* CompressedSource::SubStringHash(start, length)
SubStringHash(bv, length_, cached, string, stored, start, length) ==
    IF start = 0 /\ length = length_
    THEN [hash |-> stored, added |-> << >>, ok |-> TRUE, decoded |-> FALSE]
    ELSE IF cached
         THEN [hash |-> HashField(length, Sub(string, start, length)),
               added |-> << >>, ok |-> TRUE, decoded |-> FALSE]
         ELSE ComputeHash(bv, length_, start, length)

\* one round of the while loop of GetLineNumberSlow
LineRound(bv, w) ==
    LET Max3(a, b, c) == IF a >= b /\ a >= c THEN a
                         ELSE IF b >= c THEN b ELSE c
        Round(g, walk) ==
            [cursor |-> AdvanceCursor(bv, w.cursor, 1),
             pos |-> w.pos - 1,
             line |-> IF g.c = LF THEN w.line + 1 ELSE w.line,
             ok |-> w.ok /\ g.ok,
             read_end |-> Max3(g.data_ptr, walk.byte_offset, w.read_end)]
    IN Round(Get(bv, w.cursor), AdvanceWalk(bv, w.cursor, 1))

\* the while loop of GetLineNumberSlow, at most rounds rounds of it, run
\* as two halves so that evaluation stays shallow
RECURSIVE LineRounds(_, _, _)
LineRounds(bv, w, rounds) ==
    IF w.pos <= 0 \/ rounds = 0 THEN w
    ELSE IF rounds = 1 THEN LineRound(bv, w)
    ELSE LineRounds(bv, LineRounds(bv, w, rounds \div 2),
                    rounds - (rounds \div 2))

\* CompressedSource::GetLineNumberSlow(pos): the line returned, whether
\* the assertions held, and read_end, one past the last byte read
GetLineNumberSlow(bv, length_, pos) ==
    LET clamped == IF pos > length_ THEN length_ ELSE pos
        Result(w) == [line |-> w.line, ok |-> w.ok, read_end |-> w.read_end]
    IN Result(LineRounds(bv, [cursor |-> Cursor(0, 0), pos |-> clamped,
                              line |-> 0, ok |-> TRUE, read_end |-> 0],
                         clamped))

\* the while loop of Decompress(start, length, dest); room is the number
\* of bytes dest still accepts, put the bytes it has accepted
RECURSIVE DecompressToLoop(_, _, _, _, _, _, _)
DecompressToLoop(bv, cursor, chars_read, length, room, put, ok) ==
    IF chars_read < length
    THEN LET \* Put of the encoded code point; cursor c and chars_read n
             \* are those after the code point
             Put(encoded, c, n, ok2) ==
                 IF Len(encoded) > room
                 THEN [count |-> chars_read,
                       put |-> put \o SubSeq(encoded, 1, room),
                       ok |-> ok2]
                 ELSE DecompressToLoop(bv, c, n, length,
                                       room - Len(encoded),
                                       put \o encoded, ok2)
             \* lead surrogate g with more of the range after it: t is
             \* the code unit at cursor c1 that follows
             Pair(g, c1, t) ==
                 IF IsTrailSurrogate(t.c)
                 THEN Put(Utf8Encode(CombineSurrogatePair(g.c, t.c)),
                          AdvanceCursor(bv, c1, 1), chars_read + 2,
                          ok /\ g.ok /\ t.ok)
                 ELSE Put(Utf8Encode(g.c), c1, chars_read + 1,
                          ok /\ g.ok /\ t.ok)
             \* code unit g at cursor, c1 the cursor after it
             Unit(g, c1) ==
                 IF IsLeadSurrogate(g.c) /\ chars_read + 1 < length
                 THEN Pair(g, c1, Get(bv, c1))
                 ELSE Put(Utf8Encode(g.c), c1, chars_read + 1, ok /\ g.ok)
         IN Unit(Get(bv, cursor), AdvanceCursor(bv, cursor, 1))
    ELSE [count |-> chars_read, put |-> put, ok |-> ok]

\* CompressedSource::Decompress(start, length, dest)
DecompressTo(bv, length_, start, length, room) ==
    DecompressToLoop(bv, GetCursor(bv, start, length_), 0, length, room,
                     << >>, TRUE)

\* CompressedSource::CompressedSourcePrint(out, start, length)
CompressedSourcePrint(bv, length_, start, length) ==
    Dump(bv, GetCursor(bv, start, length_), length)

(***************************************************************************)
(* State.                                                                  *)
(***************************************************************************)
VARIABLES
    pc,             \* "source": a host string, not compressed yet;
                    \* "idle": the CompressedSource exists, no call made;
                    \* "returned": call and ret hold a finished call
    src,            \* the host string handed to Compress
    pad,            \* number of leading filler characters of src
    bytes,          \* the byte array: token stream, then the index
    char_length,    \* logical length stored in the CompressedSource
    cached_string,  \* TRUE while the uncompressed string is still cached
    hash,           \* the hash field stored in the CompressedSource
    compress_ok,    \* the DEBUG assertions at the end of Compress held
    call,           \* the last operation and its arguments
    ret             \* what it returned

\* the production classifier (production-classifier.h)
VARIABLES
    buffer_,        \* ProductionClassifier::buffer_, the log
    cursors,        \* the live Cursors, outermost first: start_ and
                    \* invalid_productions_ of each
    attributed,     \* per live cursor, the errors recorded on it or
                    \* accumulated into it: pairs << production, error >>
    masked,         \* per live cursor, the productions of the masks
                    \* Accumulate was called on it with
    next_error,     \* the location the next recorded error carries
    stage,          \* how far the run has followed the nested-scopes
                    \* scenario, and the depth of its outer cursor
    pcall,          \* the last classifier operation and its arguments
    pret            \* what it returned

\* the variables of the compressed source and those of the classifier
codec == << pc, src, pad, bytes, char_length, cached_string, hash,
            compress_ok, call, ret >>
classifier == << buffer_, cursors, attributed, masked, next_error, stage,
                 pcall, pret >>

vars == << codec, classifier >>

\* longest free part of a string that also has filler in front
MaxTail == 2

SeqsUpTo(S, n) == UNION {[1..k -> S] : k \in 0..n}

Filler(n) == [i \in 1..n |-> ChA]

\* filler lengths: none, or enough to put the free part across the first
\* or the second index anchor
Pads == {0, kBufferSize - 1, kBufferSize + kMaxTokenLength - 1,
         kCharsPerIndexEntry - 1, (2 * kCharsPerIndexEntry) - 1}

Bodies(p) == IF p = 0 THEN SeqsUpTo(Alphabet, MaxBody)
             ELSE SeqsUpTo(Alphabet, MaxTail)

\* the positions operations are tried at: all of a short string, the first
\* and the last ones of a long string
Positions == {p \in {0, 1} \cup ((pad - 1)..char_length) :
                p >= 0 /\ p <= char_length}

\* longest range tried
MaxRange == 48

Ranges == {r \in {<< p, q - p >> : p \in Positions, q \in Positions} :
             r[2] >= 0 /\ r[2] <= MaxRange}

\* length of the token stream inside bytes
StreamLength == Len(bytes) - IndexSize(char_length)

Init ==
    /\ pc = "source"
    /\ pad \in Pads
    /\ \E body \in Bodies(pad) : src = Filler(pad) \o body
    /\ bytes = << >>
    /\ char_length = 0
    /\ cached_string = FALSE
    /\ hash = HashField(0, << >>)
    /\ compress_ok = TRUE
    /\ call = [op |-> "none"]
    /\ ret = [ok |-> TRUE]
    /\ buffer_ = << >>
    /\ cursors = << >>
    /\ attributed = << >>
    /\ masked = << >>
    /\ next_error = 1
    /\ stage = << 0, 0 >>
    /\ pcall = [op |-> "none"]
    /\ pret = [ok |-> TRUE]

\* CompressedSource::Compress; NewCompressedSource stores the length and
\* the hash of src and keeps src as the cached string
Compress ==
    /\ pc = "source"
    /\ \E e \in {Encode(src)} :
          /\ bytes' = e.output \o e.index
          /\ compress_ok' = (AdvanceCursor(e.output, Cursor(0, 0), Len(src))
                             = Cursor(Len(e.output), 0))
    /\ char_length' = Len(src)
    /\ cached_string' = TRUE
    /\ hash' = HashField(Len(src), src)
    /\ pc' = "idle"
    /\ UNCHANGED << src, pad, call, ret >>
    /\ UNCHANGED classifier

\* the host drops the cached uncompressed string
DropCachedString ==
    /\ pc = "idle"
    /\ cached_string
    /\ cached_string' = FALSE
    /\ UNCHANGED << pc, src, pad, bytes, char_length, hash, compress_ok,
                    call, ret >>
    /\ UNCHANGED classifier

Source == << src, pad, bytes, char_length, cached_string, hash,
             compress_ok >>

\* the caller takes the result; the next call can be made
Return ==
    /\ pc = "returned"
    /\ pc' = "idle"
    /\ call' = [op |-> "none"]
    /\ ret' = [ok |-> TRUE]
    /\ UNCHANGED Source
    /\ UNCHANGED classifier

\* comparison strings: the substrings of src at the tried positions and
\* a few strings of their own
OtherAlphabet == {ChA, LF, ChTrail}
Others(start) ==
    {Sub(src, start, q - start) :
        q \in {p \in Positions : p >= start /\ p - start <= MaxRange}}
    \cup SeqsUpTo(OtherAlphabet, MaxOther)

\* positions GetLineNumberSlow is asked for
MaxLinePos == 48
LinePositions == {p \in Positions \cup {char_length + 1} : p <= MaxLinePos}

CallDecompress ==
    /\ pc = "idle"
    /\ pc' = "returned"
    /\ \E r \in Ranges :
         /\ call' = [op |-> "Decompress", start |-> r[1], length |-> r[2]]
         /\ ret' = Decompress(bytes, char_length, cached_string, src,
                              r[1], r[2])
    /\ UNCHANGED Source
    /\ UNCHANGED classifier

CallIsAscii ==
    /\ pc = "idle"
    /\ pc' = "returned"
    /\ \E r \in Ranges :
         /\ call' = [op |-> "IsAscii", start |-> r[1], length |-> r[2]]
         /\ ret' = [ascii |-> IsAscii(bytes,
                                      GetCursor(bytes, r[1], char_length),
                                      r[2]),
                    ok |-> TRUE]
    /\ UNCHANGED Source
    /\ UNCHANGED classifier

CallSubStringEquals ==
    /\ pc = "idle"
    /\ pc' = "returned"
    /\ \E start \in Positions : \E other \in Others(start) :
         /\ call' = [op |-> "SubStringEquals", start |-> start,
                     other |-> other]
         /\ ret' = SubStringEquals(bytes, char_length, cached_string, src,
                                   start, other)
    /\ UNCHANGED Source
    /\ UNCHANGED classifier

CallSubStringHash ==
    /\ pc = "idle"
    /\ pc' = "returned"
    /\ \E r \in Ranges :
         /\ call' = [op |-> "SubStringHash", start |-> r[1],
                     length |-> r[2]]
         /\ ret' = SubStringHash(bytes, char_length, cached_string, src,
                                 hash, r[1], r[2])
    /\ UNCHANGED Source
    /\ UNCHANGED classifier

CallGetLineNumberSlow ==
    /\ pc = "idle"
    /\ pc' = "returned"
    /\ \E pos \in LinePositions :
         /\ call' = [op |-> "GetLineNumberSlow", pos |-> pos]
         /\ ret' = GetLineNumberSlow(bytes, char_length, pos)
    /\ UNCHANGED Source
    /\ UNCHANGED classifier

CallPrint ==
    /\ pc = "idle"
    /\ pc' = "returned"
    /\ \E r \in Ranges :
         /\ call' = [op |-> "Print", start |-> r[1], length |-> r[2]]
         /\ ret' = CompressedSourcePrint(bytes, char_length, r[1], r[2])
    /\ UNCHANGED Source
    /\ UNCHANGED classifier

CallDecompressTo ==
    /\ pc = "idle"
    /\ pc' = "returned"
    /\ \E r \in Ranges : \E room \in 0..MaxRoom :
         /\ call' = [op |-> "DecompressTo", start |-> r[1],
                     length |-> r[2], room |-> room]
         /\ ret' = DecompressTo(bytes, char_length, r[1], r[2], room)
    /\ UNCHANGED Source
    /\ UNCHANGED classifier

\* static GetCursor(source, pos)
CallGetCursor ==
    /\ pc = "idle"
    /\ pc' = "returned"
    /\ \E pos \in Positions :
         /\ call' = [op |-> "GetCursor", pos |-> pos, from |-> pos,
                     chars |-> 0]
         /\ ret' = [cursor |-> GetCursor(bytes, pos, char_length),
                    ok |-> TRUE]
    /\ UNCHANGED Source
    /\ UNCHANGED classifier

\* static AdvanceCursor(source, cursor, chars) on the cursor a GetCursor
\* returned; call.pos is the position the cursor is meant to address
CallAdvanceCursor ==
    /\ pc = "returned"
    /\ call.op = "GetCursor"
    /\ \E r \in Ranges :
         /\ r[1] = call.pos
         /\ call' = [op |-> "AdvanceCursor", pos |-> r[1] + r[2],
                     from |-> r[1], chars |-> r[2]]
         /\ ret' = [cursor |-> AdvanceCursor(bytes, ret.cursor, r[2]),
                    ok |-> TRUE]
    /\ UNCHANGED << pc, Source >>
    /\ UNCHANGED classifier

\* a second static AdvanceCursor(source, cursor, chars), on the cursor the
\* first one returned; call.first is the count the first one was given
CallAdvanceCursorAgain ==
    /\ pc = "returned"
    /\ call.op = "AdvanceCursor"
    /\ \E r \in Ranges :
         /\ r[1] = call.pos
         /\ call' = [op |-> "AdvanceCursorAgain", pos |-> r[1] + r[2],
                     from |-> call.from, chars |-> r[2],
                     first |-> call.chars]
         /\ ret' = [cursor |-> AdvanceCursor(bytes, ret.cursor, r[2]),
                    ok |-> TRUE]
    /\ UNCHANGED << pc, Source >>
    /\ UNCHANGED classifier

\* the code points a Unicode escape is tried with: the ends of the range,
\* of the ASCII range, of the surrogate range and of the basic plane
EscapeCodePoints ==
    {0, 127, 128, 55295, 55296, 57343, kMaxNonSurrogateCharCode - 1,
     kMaxNonSurrogateCharCode, kMaxNonSurrogateCharCode + 1, kMaxCharCode}

\* one Unicode escape of a stream, met by the loop of AdvanceCursor and by
\* Decode: counted is what AdvanceCursor adds to chars_written for the
\* token, emitted what write_as_utf16 returns to Decode for it
CallCountUnits ==
    /\ pc = "idle"
    /\ pc' = "returned"
    /\ \E codepoint \in EscapeCodePoints :
       \E w \in {AdvanceToken(UnicodeEscape(codepoint),
                              [byte_offset |-> 0, chars_written |-> 0,
                               prev_byte_offset |-> 0,
                               prev_chars_written |-> 0])} :
       \E u \in {write_as_utf16(
                    decode_unicode(UnicodeEscape(codepoint)[2],
                                   UnicodeEscape(codepoint)[3],
                                   UnicodeEscape(codepoint)[4]),
                    kMaxTokenLength, TRUE)} :
         /\ call' = [op |-> "CountUnits", codepoint |-> codepoint]
         /\ ret' = [counted |-> w.chars_written, emitted |-> u.n,
                    units |-> u.chars, ok |-> TRUE]
    /\ UNCHANGED Source
    /\ UNCHANGED classifier

Next ==
    \/ Compress
    \/ DropCachedString
    \/ CallDecompress
    \/ CallIsAscii
    \/ CallSubStringEquals
    \/ CallSubStringHash
    \/ CallGetLineNumberSlow
    \/ CallPrint
    \/ CallDecompressTo
    \/ CallGetCursor
    \/ CallAdvanceCursor
    \/ CallAdvanceCursorAgain
    \/ CallCountUnits
    \/ Return

Spec == Init /\ [][Next]_vars

(***************************************************************************)
(* Production classifier (production-classifier.h).  A set of productions  *)
(* stands for the bit mask of the source: union for |, intersection for &. *)
(***************************************************************************)
\* deepest nesting of live cursors
MaxDepth == 3
\* longest log
MaxLog == 4
\* largest number of errors recorded in one run
MaxErrors == 2

ExpressionProduction == "Expression"
BindingPatternProduction == "BindingPattern"
AssignmentPatternProduction == "AssignmentPattern"
DistinctFormalParametersProduction == "DistinctFormalParameters"
StrictModeFormalParametersProduction == "StrictModeFormalParameters"
StrongModeFormalParametersProduction == "StrongModeFormalParameters"
ArrowFormalParametersProduction == "ArrowFormalParameters"

PatternProductions ==
    {BindingPatternProduction, AssignmentPatternProduction}
FormalParametersProductions ==
    {DistinctFormalParametersProduction,
     StrictModeFormalParametersProduction,
     StrongModeFormalParametersProduction}
StandardProductions == {ExpressionProduction} \cup PatternProductions
AllProductions ==
    StandardProductions \cup FormalParametersProductions
    \cup {ArrowFormalParametersProduction}

\* BufferElement(production, loc, message, arg); the error is known by
\* its location
Leaf(production, error) ==
    [kind |-> "Leaf", invalid_productions |-> {production},
     error |-> error, skip |-> 0]

\* BufferElement(invalid_productions, skip)
Skip(invalid_productions, skip) ==
    [kind |-> "Skip", invalid_productions |-> invalid_productions,
     error |-> 0, skip |-> skip]

is_leaf(elt) == elt.kind = "Leaf"
skip(elt) == IF is_leaf(elt) THEN 0 ELSE elt.skip

\* Cursor(classifier) on a log of the given size
NewCursor(size) == [start_ |-> size, invalid_productions_ |-> {}]

is_valid(cursor, production) ==
    production \notin cursor.invalid_productions_

\* Accumulate without the exception for ArrowFormalParameters: every
\* masked production of inner is propagated
AccumulateMasked(outer, inner, productions) ==
    [outer EXCEPT !.invalid_productions_ =
        @ \cup (inner.invalid_productions_ \cap productions)]

\* outer.Accumulate(inner, productions): outer afterwards
Accumulate(outer, inner, productions) ==
    IF inner.invalid_productions_ = {} THEN outer
    ELSE LET non_arrow_inner_invalid_productions ==
                 inner.invalid_productions_
                 \ {ArrowFormalParametersProduction}
             non_arrow_productions ==
                 productions \ {ArrowFormalParametersProduction}
             errors ==
                 non_arrow_productions
                 \cap non_arrow_inner_invalid_productions
             arrow ==
                 IF ArrowFormalParametersProduction \in productions
                    /\ ~is_valid(inner, BindingPatternProduction)
                 THEN {ArrowFormalParametersProduction}
                 ELSE {}
         IN [outer EXCEPT !.invalid_productions_ = @ \cup errors \cup arrow]

\* RecordError without the is_valid test: a Leaf is appended on every call
RecordErrorAlways(cursor, buffer, production, error) ==
    [cursor |-> [cursor EXCEPT !.invalid_productions_ =
                    @ \cup {production}],
     buffer |-> Append(buffer, Leaf(production, error))]

\* cursor.RecordError(production, loc, message, arg): the cursor and the
\* log afterwards
RecordError(cursor, buffer, production, error) ==
    IF ~is_valid(cursor, production)
    THEN [cursor |-> cursor, buffer |-> buffer]
    ELSE [cursor |-> [cursor EXCEPT !.invalid_productions_ =
                                       @ \cup {production}],
          buffer |-> Append(buffer, Leaf(production, error))]

\* the walk of FindError without the test for the production: the last
\* Leaf of the log ends it
RECURSIVE FindWalkAnyLeaf(_, _, _)
FindWalkAnyLeaf(buffer, production, end) ==
    IF end <= 0 THEN [found |-> FALSE, idx |-> end - 1]
    ELSE IF is_leaf(buffer[end])
         THEN [found |-> TRUE, idx |-> end - 1]
         ELSE FindWalkAnyLeaf(buffer, production, end - 1)

\* the loop of FindError from end on; C index idx is element idx + 1.
\* found tells that a Leaf was returned; when end reaches 0 the assertion
\* end > 0 fails and the element read next lies outside the log
RECURSIVE FindWalk(_, _, _)
FindWalk(buffer, production, end) ==
    IF end <= 0 THEN [found |-> FALSE, idx |-> end - 1]
    ELSE LET idx == end - 1
             elt == buffer[idx + 1]
         IN IF production \notin elt.invalid_productions
            THEN IF production = ArrowFormalParametersProduction
                    /\ BindingPatternProduction \in elt.invalid_productions
                 THEN FindWalk(buffer, production, idx)
                 ELSE FindWalk(buffer, production, idx - skip(elt))
            ELSE IF is_leaf(elt)
                 THEN [found |-> TRUE, idx |-> idx]
                 ELSE FindWalk(buffer, production, idx)

\* cursor.FindError(production) on the log
FindError(buffer, production) == FindWalk(buffer, production, Len(buffer))

\* pop whose Skip also counts the Skip entry itself
popSkipCountsItself(buffer, cursor) ==
    IF Len(buffer) = cursor.start_ THEN buffer
    ELSE IF cursor.invalid_productions_ = {}
         THEN SubSeq(buffer, 1, cursor.start_)
         ELSE Append(buffer, Skip(cursor.invalid_productions_,
                                  Len(buffer) - cursor.start_ + 1))

\* pop that discards the entries of every scope, with errors or without
popDiscard(buffer, cursor) ==
    SubSeq(buffer, 1, cursor.start_)

\* pop that keeps the last entry of a scope without errors
popKeepLast(buffer, cursor) ==
    IF Len(buffer) = cursor.start_ THEN buffer
    ELSE IF cursor.invalid_productions_ = {}
         THEN SubSeq(buffer, 1, cursor.start_ + 1)
         ELSE Append(buffer, Skip(cursor.invalid_productions_,
                                  Len(buffer) - cursor.start_))

\* ProductionClassifier::pop(cursor): the log afterwards
pop(buffer, cursor) ==
    IF Len(buffer) = cursor.start_ THEN buffer
    ELSE IF cursor.invalid_productions_ = {}
         THEN IF Len(buffer) >= cursor.start_
              THEN SubSeq(buffer, 1, cursor.start_)
              \* resize to a larger size appends elements of the default
              \* constructor; cursors destroyed innermost first never
              \* get here
              ELSE buffer \o [i \in 1..(cursor.start_ - Len(buffer)) |->
                                 Skip({}, 0)]
         ELSE Append(buffer, Skip(cursor.invalid_productions_,
                                  Len(buffer) - cursor.start_))

\* the productions errors are recorded for, and the masks handed to
\* Accumulate, in the explored runs
RecordedProductions ==
    {ExpressionProduction, BindingPatternProduction,
     ArrowFormalParametersProduction}
Masks ==
    {StandardProductions, AllProductions,
     {ArrowFormalParametersProduction}}

\* the errors outer takes over from inner in Accumulate: those of the
\* propagated productions, and for ArrowFormalParameters the errors of
\* inner's BindingPattern
Propagated(inner_errors, inner, productions) ==
    IF inner.invalid_productions_ = {} THEN {}
    ELSE {e \in inner_errors :
            e[1] \in productions \ {ArrowFormalParametersProduction}}
         \cup (IF ArrowFormalParametersProduction \in productions
               THEN {<< ArrowFormalParametersProduction, e[2] >> :
                       e \in {x \in inner_errors :
                                x[1] = BindingPatternProduction}}
               ELSE {})

\* the nested-scopes scenario: 1 outer opened, 2 outer has recorded an
\* error, 3 inner opened, 4 inner has recorded an error, 5 inner
\* accumulated into outer, 6 inner closed, 7 outer closed with no further
\* error recorded; 0 when the run is not following it
StageAfterPush(depth) ==
    IF stage[1] = 2 /\ depth = stage[2] + 1 THEN << 3, stage[2] >>
    ELSE << 1, depth >>

StageAfterRecord(i, appended) ==
    IF ~appended THEN stage
    ELSE IF stage[1] \in {1, 2} /\ i = stage[2] THEN << 2, stage[2] >>
    ELSE IF stage[1] \in {3, 4} /\ i = stage[2] + 1 THEN << 4, stage[2] >>
    ELSE << 0, 0 >>

StageAfterAccumulate(i, j) ==
    IF stage[1] \in {4, 5} /\ i = stage[2] /\ j = stage[2] + 1
    THEN << 5, stage[2] >>
    ELSE << 0, 0 >>

StageAfterPop(depth) ==
    IF stage[1] = 5 /\ depth = stage[2] + 1 THEN << 6, stage[2] >>
    ELSE IF stage[1] = 6 /\ depth = stage[2] THEN << 7, stage[2] >>
    ELSE << 0, 0 >>

\* ProductionClassifier::push: a new innermost cursor
CallPush ==
    /\ Len(cursors) < MaxDepth
    /\ cursors' = Append(cursors, NewCursor(Len(buffer_)))
    /\ attributed' = Append(attributed, {})
    /\ masked' = Append(masked, {})
    /\ stage' = StageAfterPush(Len(cursors) + 1)
    /\ pcall' = [op |-> "push"]
    /\ pret' = [ok |-> TRUE]
    /\ UNCHANGED << buffer_, next_error, codec >>

\* Record<P>Error on live cursor i
RecordErrorOn(i) ==
    /\ \E production \in RecordedProductions :
         /\ is_valid(cursors[i], production) =>
               (next_error <= MaxErrors /\ Len(buffer_) < MaxLog)
         /\ \E r \in {RecordError(cursors[i], buffer_, production,
                                  next_error)} :
              /\ cursors' = [cursors EXCEPT ![i] = r.cursor]
              /\ buffer_' = r.buffer
         /\ next_error' = IF is_valid(cursors[i], production)
                          THEN next_error + 1 ELSE next_error
         /\ attributed' =
               [attributed EXCEPT ![i] =
                   IF is_valid(cursors[i], production)
                   THEN @ \cup {<< production, next_error >>} ELSE @]
         /\ stage' = StageAfterRecord(i, is_valid(cursors[i], production))
         /\ pcall' = [op |-> "RecordError", cursor |-> i,
                      production |-> production,
                      was_valid |-> is_valid(cursors[i], production)]
    /\ pret' = [ok |-> TRUE]
    /\ UNCHANGED << masked, codec >>

\* Record<P>Error on the cursor of the scope being parsed, the innermost
\* live one
CallRecordError == \E i \in {Len(cursors)} \ {0} : RecordErrorOn(i)

\* Record<P>Error on any live cursor, an enclosing one included
CallRecordErrorAnyCursor == \E i \in 1..Len(cursors) : RecordErrorOn(i)

\* outer.Accumulate(inner, productions): inner is the innermost live
\* cursor and outer the cursor of the scope enclosing it
CallAccumulate ==
    /\ \E j \in {Len(cursors)} \ {0, 1} : \E i \in {j - 1} :
       \E productions \in Masks :
         /\ i < j
         /\ cursors' = [cursors EXCEPT
                           ![i] = Accumulate(cursors[i], cursors[j],
                                             productions)]
         /\ attributed' =
               [attributed EXCEPT
                   ![i] = @ \cup Propagated(attributed[j], cursors[j],
                                            productions)]
         /\ masked' = [masked EXCEPT ![i] = @ \cup productions]
         /\ stage' = StageAfterAccumulate(i, j)
         /\ pcall' = [op |-> "Accumulate", outer |-> i, inner |-> j,
                      productions |-> productions]
    /\ pret' = [ok |-> TRUE]
    /\ UNCHANGED << buffer_, next_error, codec >>

\* ~Cursor of the innermost live cursor: pop(cursor)
DestroyCursor ==
    /\ Len(cursors) > 0
    /\ buffer_' = pop(buffer_, cursors[Len(cursors)])
    /\ cursors' = SubSeq(cursors, 1, Len(cursors) - 1)
    /\ attributed' = SubSeq(attributed, 1, Len(attributed) - 1)
    /\ masked' = SubSeq(masked, 1, Len(masked) - 1)
    /\ stage' = StageAfterPop(Len(cursors))
    /\ pcall' = [op |-> "pop", start |-> cursors[Len(cursors)].start_,
                 invalid_productions |->
                     cursors[Len(cursors)].invalid_productions_,
                 size |-> Len(buffer_)]
    /\ pret' = [ok |-> TRUE]
    /\ UNCHANGED << next_error, codec >>

\* FindError(production) on the innermost live cursor, where
\* CHECK(!is_valid(production)) passes.
\* When the walk runs below index 0 the element read lies outside the
\* log: the error returned is then any value (0: none that was recorded)
CallFindError ==
    /\ \E i \in {Len(cursors)} \ {0} :
       \E production \in cursors[i].invalid_productions_ :
       \E w \in {FindError(buffer_, production)} :
         /\ pcall' = [op |-> "FindError", cursor |-> i,
                      production |-> production]
         /\ IF w.found
            THEN pret' = [error |-> buffer_[w.idx + 1].error,
                          leaf |-> w.idx, in_log |-> TRUE]
            ELSE \E e \in 0..MaxErrors :
                    pret' = [error |-> e, leaf |-> w.idx, in_log |-> FALSE]
    /\ UNCHANGED << buffer_, cursors, attributed, masked, next_error,
                    stage, codec >>

\* a classifier with an empty log and no cursor; no source is compressed
ClassifierInit == Init /\ pad = 0 /\ src = << >>

ClassifierNext ==
    \/ CallPush
    \/ CallRecordError
    \/ CallAccumulate
    \/ DestroyCursor
    \/ CallFindError

ClassifierSpec == ClassifierInit /\ [][ClassifierNext]_vars

\* the classifier used without the discipline of the parser: an error may
\* be recorded on an enclosing cursor while inner ones are live
AnyCursorNext ==
    \/ CallPush
    \/ CallRecordErrorAnyCursor
    \/ CallAccumulate
    \/ DestroyCursor

AnyCursorSpec == ClassifierInit /\ [][AnyCursorNext]_vars

(***************************************************************************)
(* What the operations are specified to return, stated on the original     *)
(* string alone.                                                           *)
(***************************************************************************)
Returned(op) == pc = "returned" /\ call.op = op

\* the requested range of the original string
Requested == Sub(src, call.start, call.length)

\* number of line feeds among the first n code units of s
LineFeedsBefore(s, n) ==
    Cardinality({i \in 1..Min(n, Len(s)) : s[i] = LF})

\* the code units of s from index i on, as scalars written in UTF-8: a
\* lead surrogate directly followed by a trail surrogate is one scalar,
\* any other surrogate is written unpaired
RECURSIVE Wtf8(_, _)
Wtf8(s, i) ==
    IF i > Len(s) THEN << >>
    ELSE IF IsLeadSurrogate(s[i]) /\ i < Len(s) /\ IsTrailSurrogate(s[i + 1])
         THEN Utf8Encode(CombineSurrogatePair(s[i], s[i + 1]))
              \o Wtf8(s, i + 2)
         ELSE Utf8Encode(s[i]) \o Wtf8(s, i + 1)

\* number of code units of s, from index i on, whose scalars are written
\* whole before the first scalar that does not fit into room bytes
RECURSIVE AcceptedUnits(_, _, _)
AcceptedUnits(s, i, room) ==
    IF i > Len(s) THEN 0
    ELSE LET pair == IsLeadSurrogate(s[i]) /\ i < Len(s)
                     /\ IsTrailSurrogate(s[i + 1])
             n == IF pair
                  THEN Len(Utf8Encode(CombineSurrogatePair(s[i], s[i + 1])))
                  ELSE Len(Utf8Encode(s[i]))
             units == IF pair THEN 2 ELSE 1
         IN IF n > room THEN 0
            ELSE units + AcceptedUnits(s, i + units, room - n)

(***************************************************************************)
(* Claims.                                                                 *)
(***************************************************************************)
\* C1: without a cached string, Decompress(start, length) returns exactly
\* the code units start .. start + length - 1 of the original string.
C1_DecompressReturnsRange ==
    (Returned("Decompress") /\ ~cached_string) => ret.string = Requested

\* C2: SubStringEquals(start, other) is true exactly when the range fits
\* and equals other code unit by code unit; when it does not fit, false is
\* returned without reading cursor, bytes or cached string.
C2_SubStringEqualsExact ==
    Returned("SubStringEquals") =>
        /\ ret.equal = (/\ call.start + Len(call.other) <= char_length
                        /\ Sub(src, call.start, Len(call.other))
                           = call.other)
        /\ (call.start + Len(call.other) > char_length => ~ret.read)

\* C3: if IsAscii on a range returns true, every code unit of the original
\* string in that range is at most 0x7F.
C3_IsAsciiSound ==
    (Returned("IsAscii") /\ ret.ascii) =>
        \A i \in 1..Len(Requested) : Requested[i] <= 127

\* C4: GetCursor(start) advanced by length is the cursor GetCursor(start +
\* length) returns, byte offset and sub-token offset alike.
C4_AdvanceMeetsGetCursor ==
    Returned("AdvanceCursor") =>
        ret.cursor = GetCursor(bytes, call.pos, char_length)

\* C5: advancing (0, 0) by the full character length ends at the end of
\* the token stream with sub-token offset 0: the assertions at the end of
\* Compress hold.
C5_CompressAssertionsHold ==
    pc # "source" => compress_ok

\* C6: Decompress, SubStringEquals and SubStringHash return the same with
\* the cached string present as with the cached string dropped.
C6_CacheIsTransparent ==
    /\ Returned("Decompress") =>
          ret.string = Decompress(bytes, char_length, ~cached_string, src,
                                  call.start, call.length).string
    /\ Returned("SubStringEquals") =>
          ret.equal = SubStringEquals(bytes, char_length, ~cached_string,
                                      src, call.start, call.other).equal
    /\ Returned("SubStringHash") =>
          ret.hash = SubStringHash(bytes, char_length, ~cached_string, src,
                                   hash, call.start, call.length).hash

\* C7: when SubStringHash hashes from the compressed bytes, the code units
\* given to the hasher, chunk after chunk, are exactly the requested range;
\* for the full range it returns the stored hash without decoding.
C7_HasherFedRange ==
    Returned("SubStringHash") =>
        /\ ret.decoded => ret.added = Requested
        /\ (call.start = 0 /\ call.length = char_length) =>
               (ret.hash = hash /\ ~ret.decoded)

\* C8: GetLineNumberSlow(pos) is the number of line feeds at positions
\* below min(pos, char_length), and it reads nothing past the token stream.
C8_LineNumberCountsLineFeeds ==
    Returned("GetLineNumberSlow") =>
        /\ ret.line = LineFeedsBefore(src, Min(call.pos, char_length))
        /\ ret.read_end <= StreamLength

\* C9: Dump(start, length) writes the requested range as UTF-8, one scalar
\* per code point, pairs inside the range recombined, a trail surrogate at
\* the start and a lead surrogate at the end unpaired, and consumes exactly
\* length code units.
C9_DumpWritesRange ==
    Returned("Print") =>
        /\ ret.file = Wtf8(Requested, 1)
        /\ ret.chars = 0

\* C10: Decompress(start, length, stream) returns length when the sink
\* accepts every byte, and otherwise the number of code units of the range
\* whose scalars were accepted whole before the rejected one, a value
\* below length.
C10_StreamReturnsAcceptedUnits ==
    Returned("DecompressTo") =>
        /\ ret.count = AcceptedUnits(Requested, 1, call.room)
        /\ Len(Wtf8(Requested, 1)) <= call.room => ret.count = call.length
        /\ Len(Wtf8(Requested, 1)) > call.room => ret.count < call.length

(***************************************************************************)
(* Claims on the production classifier.                                    *)
(***************************************************************************)
\* the first error, in recording order, among those recorded on cursor i
\* for production or accumulated into it
FirstRecorded(i, production) ==
    LET ids == {e[2] : e \in {x \in attributed[i] : x[1] = production}}
    IN IF ids = {} THEN 0
       ELSE CHOOSE e \in ids : \A f \in ids : e <= f

\* C11: FindError(P) on a cursor invalid for P returns the first error
\* recorded for P, in recording order, among the errors of the cursor's
\* scope and of the inner scopes accumulated into it.
C11_FindErrorReturnsFirst ==
    pcall.op = "FindError" =>
        /\ pret.in_log
        /\ pret.error = FirstRecorded(pcall.cursor, pcall.production)

\* C12: FindError(P) on a cursor invalid for P, however P became invalid,
\* returns a Leaf whose invalidated set contains P, and its walk never
\* goes below log index 0.
C12_FindErrorEndsAtLeaf ==
    pcall.op = "FindError" =>
        /\ pret.in_log
        /\ pret.leaf >= 0
        /\ is_leaf(buffer_[pret.leaf + 1])
        /\ pcall.production \in buffer_[pret.leaf + 1].invalid_productions

\* C13: recording is idempotent per production on a cursor. A
\* Record<P>Error on a cursor for which P is valid appends exactly one
\* Leaf carrying only P and sets P in the cursor's invalidated set; a
\* Record<P>Error on a cursor for which P is already invalid, through an
\* earlier Record<P>Error or through Accumulate, changes neither the log
\* nor any cursor.
C13_RecordErrorIdempotent ==
    [][pcall'.op = "RecordError" =>
         IF pcall'.production
               \notin cursors[pcall'.cursor].invalid_productions_
         THEN /\ Len(buffer_') = Len(buffer_) + 1
              /\ SubSeq(buffer_', 1, Len(buffer_)) = buffer_
              /\ buffer_'[Len(buffer_')].kind = "Leaf"
              /\ buffer_'[Len(buffer_')].invalid_productions
                    = {pcall'.production}
              /\ cursors' =
                    [cursors EXCEPT ![pcall'.cursor].invalid_productions_
                                        = @ \cup {pcall'.production}]
         ELSE /\ buffer_' = buffer_
              /\ cursors' = cursors]_vars

\* a Record<P>Error has been a no-op on a cursor whose P was invalid only
\* through Accumulate: no entry of the log carries P
C13_RecordedAfterAccumulate ==
    /\ pcall.op = "RecordError"
    /\ ~pcall.was_valid
    /\ \A k \in 1..Len(buffer_) :
          pcall.production \notin buffer_[k].invalid_productions

\* C14: when a cursor whose invalidated set is empty is popped, the log
\* length afterwards is the cursor's start and the entries below start are
\* unchanged.
C14_PopEmptyTruncates ==
    [][(pcall'.op = "pop" /\ pcall'.invalid_productions = {}) =>
         /\ Len(buffer_') = cursors[Len(cursors)].start_
         /\ buffer_' = SubSeq(buffer_, 1, cursors[Len(cursors)].start_)]_vars

\* a scope without errors of its own has been popped: a Leaf and the Skip
\* of a collapsed inner scope were removed, entries below start remain
C14_PoppedOverSkip ==
    /\ pcall.op = "pop"
    /\ pcall.invalid_productions = {}
    /\ pcall.start > 0
    /\ pcall.size >= pcall.start + 2
    /\ Len(buffer_) = pcall.start

\* C15: outer.Accumulate(inner, mask) changes only outer's invalidated
\* set, to old \cup ((inner.invalid \cap mask) \ {ArrowFormalParameters})
\* \cup ({ArrowFormalParameters} if mask contains it and inner is not a
\* valid binding pattern); no bit is cleared, the log is untouched, nothing
\* changes when inner's set is empty, and inner's own ArrowFormalParameters
\* bit propagates nothing.
C15_AccumulateFormula ==
    [][pcall'.op = "Accumulate" =>
         /\ buffer_' = buffer_
         /\ cursors' =
               [cursors EXCEPT ![pcall'.outer].invalid_productions_ =
                   @ \cup ((cursors[pcall'.inner].invalid_productions_
                              \cap pcall'.productions)
                           \ {ArrowFormalParametersProduction})
                     \cup (IF /\ ArrowFormalParametersProduction
                                    \in pcall'.productions
                              /\ BindingPatternProduction \in
                                    cursors[pcall'.inner].invalid_productions_
                           THEN {ArrowFormalParametersProduction}
                           ELSE {})]
         /\ cursors[pcall'.outer].invalid_productions_
               \subseteq cursors'[pcall'.outer].invalid_productions_
         /\ (cursors[pcall'.inner].invalid_productions_ = {}
                => cursors' = cursors)]_vars

\* an Accumulate whose mask contains ArrowFormalParameters, from an inner
\* cursor invalid for ArrowFormalParameters but a valid binding pattern,
\* has left outer valid for ArrowFormalParameters
C15_ArrowNotFromArrow ==
    /\ pcall.op = "Accumulate"
    /\ ArrowFormalParametersProduction \in pcall.productions
    /\ Len(cursors) >= pcall.inner
    /\ ArrowFormalParametersProduction
          \in cursors[pcall.inner].invalid_productions_
    /\ BindingPatternProduction
          \notin cursors[pcall.inner].invalid_productions_
    /\ ArrowFormalParametersProduction
          \notin cursors[pcall.outer].invalid_productions_

\* C16 as stated: after outer has recorded an error, inner has recorded an
\* error, has been accumulated into outer and closed, closing outer with
\* no further error recorded discards all log entries, and the log length
\* is outer's start again.
C16_OuterCloseDiscardsAll ==
    (stage[1] = 7 /\ pcall.op = "pop") => Len(buffer_) = pcall.start

\* C16 amended: in that scenario closing outer discards nothing. The log
\* holds at least outer's Leaf, inner's Leaf and inner's Skip above
\* outer's start, and pop appends one Skip carrying outer's invalidated set
\* and the number of entries since outer's start.
C16_OuterCloseAppendsSkip ==
    (stage[1] = 7 /\ pcall.op = "pop") =>
        /\ pcall.invalid_productions # {}
        /\ pcall.size >= pcall.start + 3
        /\ Len(buffer_) = pcall.size + 1
        /\ buffer_[Len(buffer_)]
              = Skip(pcall.invalid_productions, pcall.size - pcall.start)

\* the nested-scopes scenario has run to its end: outer has been closed
C16_OuterClosed ==
    /\ stage[1] = 7
    /\ pcall.op = "pop"
    /\ Len(buffer_) > pcall.start

(***************************************************************************)
(* Claims on cursors and on the code units of a Unicode escape.            *)
(***************************************************************************)
\* C17: AdvanceCursor is additive. On the cursor c of a position of the
\* stream, AdvanceCursor(c, a) followed by AdvanceCursor(., b), a + b
\* within the code units remaining after c, gives the cursor
\* AdvanceCursor(c, a + b) gives; AdvanceCursor(c, 0) gives c.
C17_AdvanceCursorAdditive ==
    /\ Returned("AdvanceCursorAgain") =>
          ret.cursor = AdvanceCursor(bytes,
                                     GetCursor(bytes, call.from, char_length),
                                     call.first + call.chars)
    /\ (Returned("AdvanceCursor") /\ call.chars = 0) =>
          ret.cursor = GetCursor(bytes, call.from, char_length)

\* two advances have been made from a cursor inside a token, the first to
\* a cursor inside a token again, the second by at least one code unit
C17_AdvancedTwice ==
    /\ Returned("AdvanceCursorAgain")
    /\ call.first > 0
    /\ call.chars > 0
    /\ GetCursor(bytes, call.from, char_length).sub_token_offset > 0
    /\ GetCursor(bytes, call.from + call.first,
                 char_length).sub_token_offset > 0

\* a cursor operation has returned the cursor of a position below
\* char_length
CursorReturned ==
    /\ \/ Returned("GetCursor")
       \/ Returned("AdvanceCursor")
       \/ Returned("AdvanceCursorAgain")
    /\ call.pos < char_length

\* the code units the loop of AdvanceCursor counts for the token at
\* byte_offset
CountedUnits(data, byte_offset) ==
    AdvanceToken(data, [byte_offset |-> byte_offset, chars_written |-> 0,
                        prev_byte_offset |-> 0,
                        prev_chars_written |-> 0]).chars_written

C19_EscapeUnitsAgree ==
    Returned("CountUnits") =>
        /\ ret.counted = (IF call.codepoint > 65535 THEN 2 ELSE 1)
        /\ ret.counted = ret.emitted

\* C20: IsAscii(cursor, length), on the cursor of any position and for any
\* length from 0, is true exactly if no Unicode escape contributes a code
\* unit to the range, that is if no code unit of the range is above 0x7F;
\* an empty range gives true.
C20_IsAsciiExact ==
    Returned("IsAscii") =>
        ret.ascii = (\A i \in 1..Len(Requested) : Requested[i] <= 127)

(***************************************************************************)
(* Claims on Decode and on the index.                                      *)
(***************************************************************************)
\* the token codes at the token starts from byte offset from up to, and
\* not including, byte offset to
RECURSIVE CodesRead(_, _, _)
CodesRead(data, from, to) ==
    IF from >= to \/ from >= Len(data) THEN {}
    ELSE {At(data, from)}
         \cup CodesRead(data,
                        from + (IF is_bytecode(At(data, from)) THEN 1
                                ELSE IF is_ascii(At(data, from)) THEN 2
                                ELSE 4),
                        to)

\* C21: Decode reaches no UNREACHABLE branch. The narrow Decode, run for a
\* range IsAscii returned true for, reads no Unicode escape, neither as
\* its partial first token nor in the whole-token loop; and no cursor with
\* sub_token_offset > 0 that GetCursor or AdvanceCursor produces stands on
\* an ASCII escape.
C21_NoUnreachableBranch ==
    /\ (Returned("Decompress") /\ ~cached_string /\ ~ret.wide) =>
          \A code \in CodesRead(bytes, ret.cursor.byte_offset,
                                ret.data_ptr) : ~is_unicode(code)
    /\ (/\ \/ Returned("GetCursor")
           \/ Returned("AdvanceCursor")
           \/ Returned("AdvanceCursorAgain")
        /\ ret.cursor.sub_token_offset > 0) =>
          ~is_ascii(At(bytes, ret.cursor.byte_offset))

\* a narrow Decode has started inside a dictionary token and stored code
\* units of a string that has a Unicode escape outside the range
C21_NarrowDecodeInsideToken ==
    /\ Returned("Decompress")
    /\ ~cached_string
    /\ ~ret.wide
    /\ ret.cursor.sub_token_offset > 0
    /\ call.length > 0
    /\ \E i \in 1..Len(src) : src[i] > 127

\* C22: for every range with start + length <= char_length, Decode reads
\* only bytes below the length of the token stream, none of the index and
\* none past the byte array, and stores code units only at destination
\* indices 0 .. length - 1, also when the last token of the range extends
\* beyond the requested end.
C22_DecodeStaysInBounds ==
    (Returned("Decompress") /\ ~cached_string) =>
        /\ ret.data_ptr <= StreamLength
        /\ Len(ret.string) <= call.length

\* a Decode has ended inside a surrogate pair or a dictionary token: the
\* last token read stands for more code units than the range had left
C22_RangeEndsInsideToken ==
    /\ Returned("Decompress")
    /\ ~cached_string
    /\ call.length > 0
    /\ GetCursor(bytes, call.start + call.length,
                 char_length).sub_token_offset > 0
    /\ ret.string = Requested

\* one token of the stream stepped over, its code units counted as Decode
\* emits them
UnitsToken(data, w) ==
    LET code == At(data, w.byte_offset)
    IN IF is_bytecode(code)
       THEN [byte_offset |-> w.byte_offset + 1,
             units |-> w.units + token_lengths(code)]
       ELSE IF is_ascii(code)
            THEN [byte_offset |-> w.byte_offset + 2, units |-> w.units + 1]
            ELSE [byte_offset |-> w.byte_offset + 4,
                  units |-> w.units
                            + write_as_utf16(
                                  decode_unicode(
                                      At(data, w.byte_offset + 1),
                                      At(data, w.byte_offset + 2),
                                      At(data, w.byte_offset + 3)),
                                  kMaxTokenLength, TRUE).n]

\* the tokens stepped over while byte_offset is below to, at most rounds
\* of them, run as two halves so that evaluation stays shallow
RECURSIVE UnitsRounds(_, _, _, _)
UnitsRounds(data, to, w, rounds) ==
    IF w.byte_offset >= to \/ rounds = 0 THEN w
    ELSE IF rounds = 1 THEN UnitsToken(data, w)
    ELSE UnitsRounds(data, to, UnitsRounds(data, to, w, rounds \div 2),
                     rounds - (rounds \div 2))

\* the code units the tokens from the start of the stream up to byte
\* offset to decode to; -1 if to is not a token boundary of the stream
UnitsBefore(data, to) ==
    LET Counted(w) == IF w.byte_offset = to THEN w.units ELSE -1
    IN IF to < 0 \/ to > Len(data) THEN -1
       ELSE Counted(UnitsRounds(data, to,
                                [byte_offset |-> 0, units |-> 0], to))

\* C23: for an input of length L the index has floor(L / K) entries, each
\* written by the encoder (the last one also when L is a multiple of K);
\* entry i is the byte offset of the token that begins at position
\* (i + 1) * K, a token boundary; and the entry GetCursor reads for a
\* position from K to L lies inside the index.
C23_IndexAnchors ==
    pc # "source" =>
        /\ Len(bytes) >= IndexSize(char_length)
        /\ UnitsBefore(bytes, StreamLength) = char_length
        /\ \A i \in 0..((char_length \div kCharsPerIndexEntry) - 1) :
              /\ \A b \in 1..kIntSize :
                    bytes[StreamLength + (i * kIntSize) + b] \in 0..255
              /\ ReadIndex(bytes, (i + 1) * kCharsPerIndexEntry,
                           char_length) <= StreamLength
              /\ UnitsBefore(bytes,
                             ReadIndex(bytes,
                                       (i + 1) * kCharsPerIndexEntry,
                                       char_length))
                    = (i + 1) * kCharsPerIndexEntry
        /\ \A pos \in {p \in Positions : p >= kCharsPerIndexEntry} :
              /\ (pos \div kCharsPerIndexEntry) - 1 >= 0
              /\ StreamLength
                    + ((pos \div kCharsPerIndexEntry) * kIntSize)
                    <= Len(bytes)

\* a source whose length is twice K has been compressed: the index has two
\* entries and the block after the last anchor is empty
C23_LengthIsMultiple ==
    /\ pc # "source"
    /\ char_length = 2 * kCharsPerIndexEntry
    /\ ReadIndex(bytes, char_length, char_length) = StreamLength

(***************************************************************************)
(* Further claims on the production classifier.                            *)
(***************************************************************************)
\* C24: when a cursor with a non-empty invalidated set is popped and the
\* log has grown since the cursor was created, pop appends exactly one
\* Skip entry with the cursor's invalidated set and with skip = log length
\* before the append - cursor start, so that (index of the Skip) - skip is
\* the cursor's start; no existing entry is modified or removed.
C24_PopAppendsSkip ==
    [][(/\ pcall'.op = "pop"
        /\ pcall'.invalid_productions # {}
        /\ Len(buffer_) > cursors[Len(cursors)].start_) =>
         /\ Len(buffer_') = Len(buffer_) + 1
         /\ SubSeq(buffer_', 1, Len(buffer_)) = buffer_
         /\ buffer_'[Len(buffer_')].kind = "Skip"
         /\ buffer_'[Len(buffer_')].invalid_productions
               = cursors[Len(cursors)].invalid_productions_
         /\ buffer_'[Len(buffer_')].skip
               = Len(buffer_) - cursors[Len(cursors)].start_
         /\ (Len(buffer_') - 1) - buffer_'[Len(buffer_')].skip
               = cursors[Len(cursors)].start_]_vars

\* a cursor created on a log that was not empty has been popped with
\* errors, over the Skip of an inner scope
C24_PoppedWithErrors ==
    /\ pcall.op = "pop"
    /\ pcall.invalid_productions # {}
    /\ pcall.start > 0
    /\ pcall.size >= pcall.start + 2
    /\ Len(buffer_) = pcall.size + 1
    /\ buffer_[pcall.size].kind = "Skip"

\* the nested-scopes scenario with one error each, up to the close of
\* inner: outer, now the innermost live cursor, recorded an error for P;
\* inner recorded an error for another production Q, was accumulated into
\* outer with a mask containing Q and was closed
ScenarioClosed(P, Q) ==
    /\ stage[1] = 6
    /\ Len(cursors) = stage[2]
    /\ P # Q
    /\ Q \in masked[stage[2]]
    /\ Len(buffer_) = cursors[stage[2]].start_ + 3
    /\ is_leaf(buffer_[cursors[stage[2]].start_ + 1])
    /\ buffer_[cursors[stage[2]].start_ + 1].invalid_productions = {P}
    /\ is_leaf(buffer_[cursors[stage[2]].start_ + 2])
    /\ buffer_[cursors[stage[2]].start_ + 2].invalid_productions = {Q}
    /\ ~is_leaf(buffer_[cursors[stage[2]].start_ + 3])

\* after ScenarioClosed(P, Q): outer is invalid for P and for Q, a
\* FindError(P) on it has returned outer's own error and a FindError(Q)
\* the error of inner
ScenarioErrors(P, Q) ==
    /\ P \in cursors[stage[2]].invalid_productions_
    /\ Q \in cursors[stage[2]].invalid_productions_
    /\ (pcall.op = "FindError" /\ pcall.production = P) =>
          /\ pret.in_log
          /\ pret.error = buffer_[cursors[stage[2]].start_ + 1].error
    /\ (pcall.op = "FindError" /\ pcall.production = Q) =>
          /\ pret.in_log
          /\ pret.error = buffer_[cursors[stage[2]].start_ + 2].error

\* C25 as stated: errors of different productions do not mask each other
\* across scopes. If outer records E1 for P, then inner records E2 for a
\* different production Q, is accumulated into outer with a mask
\* containing Q and is closed, outer is invalid for P and Q, FindError(P)
\* on outer returns E1 and FindError(Q) returns E2.
C25_ErrorsDoNotMask ==
    \A P \in RecordedProductions : \A Q \in RecordedProductions :
        ScenarioClosed(P, Q) => ScenarioErrors(P, Q)

\* C25 amended: the same for every Q other than ArrowFormalParameters,
\* which Accumulate does not propagate from inner's own bit.
C25_ErrorsDoNotMaskButArrow ==
    \A P \in RecordedProductions :
    \A Q \in RecordedProductions \ {ArrowFormalParametersProduction} :
        ScenarioClosed(P, Q) => ScenarioErrors(P, Q)

\* the scenario has run with Q other than ArrowFormalParameters, and
\* FindError(P) on outer has jumped over the Skip of inner to outer's own
\* error
C25_OuterErrorFound ==
    \E P \in RecordedProductions :
    \E Q \in RecordedProductions \ {ArrowFormalParametersProduction} :
        /\ ScenarioClosed(P, Q)
        /\ pcall.op = "FindError"
        /\ pcall.production = P
        /\ pret.in_log
        /\ pret.leaf = cursors[stage[2]].start_

\* C26: for every sequence of push, Record*Error on any live cursor,
\* Accumulate and pop, with cursors popped innermost first, the assertions
\* of pop hold at every pop: the log is at least as long as the popped
\* cursor's start, and if it is exactly as long, the cursor's invalidated
\* set is empty.
C26_PopAssertionsHold ==
    pcall.op = "pop" =>
        /\ pcall.size >= pcall.start
        /\ (pcall.size = pcall.start => pcall.invalid_productions = {})

\* C27: FindError(P) on a cursor with P invalid only returns a Leaf stored
\* at a log index at or above that cursor's start, never an error recorded
\* in an enclosing scope before the cursor was created, for every
\* production, ArrowFormalParameters included.
C27_FindErrorWithinScope ==
    (pcall.op = "FindError" /\ pret.in_log) =>
        pret.leaf >= cursors[pcall.cursor].start_

====
